---- MODULE Spec2Model ----
(***************************************************************************)
(* party.address of trytond-shipping-ups: the mapping of an address to the *)
(* UPS payloads (_get_ups_address_xml, to_ups_from_address,                *)
(* to_ups_to_address, to_ups_shipper, to_worldship_address) and the        *)
(* address validation (_ups_address_validate).                             *)
(*                                                                         *)
(* A Python string is a sequence of one-character strings; Python's None   *)
(* is the value None below; a record of the store (country, subdivision,   *)
(* carrier) that is unset is the record with id 0.                         *)
(***************************************************************************)
EXTENDS Integers, Sequences, FiniteSets, TLC

VARIABLES
    addr,       \* self: the party.address record
    party,      \* self.party: phone, fax, email, name
    company,    \* Transaction().context.get('company'): 0 when not set
    carrier,    \* PartyConfig(1).default_validation_carrier: id 0 when not set
    transport,  \* what client.validate will do when it is called
    op,         \* the method that ran last
    pc,         \* position inside _ups_address_validate
    response,   \* the response client.validate returned
    request,    \* the fulfil_shipping.Address handed to client.validate
    i,          \* index of the suggestion the loop is at (1-based)
    matches,    \* the list the loop accumulates
    calls,      \* number of calls of client.validate
    lookups,    \* number of calls of Subdivision.search
    result      \* what the method returned or raised

vars == <<addr, party, company, carrier, transport, op, pc, response, request, i,
          matches, calls, lookups, result>>

----------------------------------------------------------------------------
(* Bounds of the model *)

\* longest street and streetbis drawn
MaxStreetLen == 36
\* longest city drawn
MaxCityLen == 31
\* longest list of suggestions in a carrier response
MaxSuggestions == 3

----------------------------------------------------------------------------
(* Python values *)

None == <<"None">>

\* bool(s) of a string or None
Truthy(s) == s # None /\ s # <<>>

\* s[:n]
SliceTo(s, n) == SubSeq(s, 1, IF Len(s) < n THEN Len(s) ELSE n)

\* s[n:]
SliceFrom(s, n) == SubSeq(s, n + 1, Len(s))

\* x or ''
OrEmpty(s) == IF Truthy(s) THEN s ELSE <<>>

Digits == {"0", "1", "2", "3", "4", "5", "6", "7", "8", "9"}

IsDigit(c) == c \in Digits

\* digits_only_re.sub('', s): every run of non-digits is removed
digits_only(s) == SelectSeq(s, IsDigit)

UpperOf == [c \in {"a", "u", "h", "o", "A", "U", "H", "O"} |->
              CASE c = "a" -> "A" [] c = "u" -> "U" [] c = "h" -> "H"
                [] c = "o" -> "O" [] OTHER -> c]

\* s.upper()
upper(s) == [k \in 1..Len(s) |-> UpperOf[s[k]]]

\* a string of n characters, each position recognisable
Text(n) == [k \in 1..n |-> IF k % 3 = 1 THEN "a" ELSE IF k % 3 = 2 THEN "b" ELSE "c"]

----------------------------------------------------------------------------
(* Records of the store *)

NoCountry == [id |-> 0, code |-> <<>>]
US == [id |-> 1, code |-> <<"U", "S">>]
CA == [id |-> 2, code |-> <<"C", "A">>]
PR == [id |-> 3, code |-> <<"P", "R">>]
FR == [id |-> 4, code |-> <<"F", "R">>]

NoSubdivision == [id |-> 0, code |-> <<>>]
US_TX == [id |-> 1, code |-> <<"U", "S", "-", "T", "X">>]
US_DD == [id |-> 2, code |-> <<"U", "S", "-", "D", "D">>]
US_DD2 == [id |-> 3, code |-> <<"U", "S", "-", "D", "D">>]
CA_ON == [id |-> 4, code |-> <<"C", "A", "-", "O", "N">>]

\* the country.subdivision table: US-DD is stored twice, US-ZZ not at all
Subdivisions == {US_TX, US_DD, US_DD2, CA_ON}

\* bool(record)
Set(r) == r.id # 0

----------------------------------------------------------------------------
(* Results *)

Raise(msg) == [kind |-> "error", val |-> msg]
Return(v) == [kind |-> "ok", val |-> v]
NoResult == [kind |-> "none", val |-> <<>>]

ups_field_missing(what, where) == <<"%s is missing in %s.", what, where>>

----------------------------------------------------------------------------
(* _get_ups_address_xml *)

StreetLimit == 35
CityLimit == 30

StateCountriesWithPR == {US.code, CA.code, PR.code}

\* the countries whose addresses need a subdivision
StateCountries == {US.code, CA.code}

\* the countries whose addresses need a postal code
ZipCountries == {US.code, CA.code, PR.code}

NoError == <<>>

required_any(a) ==
    IF ~(Truthy(a.street) \/ Truthy(a.city) \/ Set(a.country))
    THEN <<"Street, City and Country are required.">>
    ELSE IF a.country.code \in StateCountries /\ ~Set(a.subdivision)
    THEN <<"State is required for %s", a.country.code>>
    ELSE IF a.country.code \in ZipCountries /\ ~Truthy(a.zip)
    THEN <<"ZIP is required for %s", a.country.code>>
    ELSE NoError

required_zip_first(a) ==
    IF ~(Truthy(a.street) /\ Truthy(a.city) /\ Set(a.country))
    THEN <<"Street, City and Country are required.">>
    ELSE IF a.country.code \in ZipCountries /\ ~Truthy(a.zip)
    THEN <<"ZIP is required for %s", a.country.code>>
    ELSE IF a.country.code \in StateCountries /\ ~Set(a.subdivision)
    THEN <<"State is required for %s", a.country.code>>
    ELSE NoError

\* the three checks at the head of _get_ups_address_xml: the message of the
\* first one that fails, NoError when all pass
required(a) ==
    IF ~(Truthy(a.street) /\ Truthy(a.city) /\ Set(a.country))
    THEN <<"Street, City and Country are required.">>
    ELSE IF a.country.code \in StateCountries /\ ~Set(a.subdivision)
    THEN <<"State is required for %s", a.country.code>>
    ELSE IF a.country.code \in ZipCountries /\ ~Truthy(a.zip)
    THEN <<"ZIP is required for %s", a.country.code>>
    ELSE NoError

address_vals_no_limit(a) ==
    ("AddressLine1" :> a.street
        @@ "City" :> a.city
        @@ "CountryCode" :> a.country.code)
    @@ (IF Truthy(a.streetbis)
        THEN "AddressLine2" :> SliceTo(a.streetbis, StreetLimit) ELSE <<>>)
    @@ (IF Set(a.subdivision)
        THEN "StateProvinceCode" :> SliceFrom(a.subdivision.code, 3) ELSE <<>>)
    @@ (IF Truthy(a.zip) THEN "PostalCode" :> a.zip ELSE <<>>)

address_vals_always(a) ==
    ("AddressLine1" :> SliceTo(a.street, StreetLimit)
        @@ "City" :> SliceTo(a.city, CityLimit)
        @@ "CountryCode" :> a.country.code)
    @@ (IF Truthy(a.streetbis)
        THEN "AddressLine2" :> SliceTo(a.streetbis, StreetLimit) ELSE <<>>)
    @@ (IF Set(a.subdivision)
        THEN "StateProvinceCode" :> SliceFrom(a.subdivision.code, 3) ELSE <<>>)
    @@ "PostalCode" :> OrEmpty(a.zip)

\* the vals dict of _get_ups_address_xml
address_vals(a) ==
    ("AddressLine1" :> SliceTo(a.street, StreetLimit)
        @@ "City" :> SliceTo(a.city, CityLimit)
        @@ "CountryCode" :> a.country.code)
    @@ (IF Truthy(a.streetbis)
        THEN "AddressLine2" :> SliceTo(a.streetbis, StreetLimit) ELSE <<>>)
    @@ (IF Set(a.subdivision)
        THEN "StateProvinceCode" :> SliceFrom(a.subdivision.code, 3) ELSE <<>>)
    @@ (IF Truthy(a.zip) THEN "PostalCode" :> a.zip ELSE <<>>)

_get_ups_address_xml(a) ==
    IF required(a) # NoError
    THEN Raise(required(a))
    ELSE Return(address_vals(a))

----------------------------------------------------------------------------
(* The contact fields shared by the three roles *)

\* the FaxNumber and EMailAddress entries, added when set
contact_vals(p) ==
    (IF Truthy(p.fax) THEN "FaxNumber" :> p.fax ELSE <<>>)
    @@ (IF Truthy(p.email) THEN "EMailAddress" :> p.email ELSE <<>>)

\* Company(company_id).party
CompanyParty == [name |-> <<"c", "o">>, identifiers |-> << <<"9">> >>]

\* ShipmentConfirm.<role>_type(address, **vals)
Payload(address, vals) == [Address |-> address, vals |-> vals]

----------------------------------------------------------------------------
(* to_ups_from_address, to_ups_to_address, to_ups_shipper *)

\* company_party.identifiers and company_party.identifiers[0].code or ''
company_tax(cp) == IF cp.identifiers # <<>> THEN OrEmpty(cp.identifiers[1]) ELSE <<>>

\* self.name or self.party.name
attention(a, p) == IF Truthy(a.name) THEN a.name ELSE p.name

from_vals(a, p) ==
    ("CompanyName" :> CompanyParty.name
        @@ "AttentionName" :> attention(a, p)
        @@ "TaxIdentificationNumber" :> company_tax(CompanyParty)
        @@ "PhoneNumber" :> digits_only(p.phone))
    @@ contact_vals(p)

to_ups_from_address_no_company_check(a, p, c) ==
    IF ~Truthy(p.phone)
    THEN Raise(ups_field_missing("Phone no.", "\"from address\""))
    ELSE IF _get_ups_address_xml(a).kind = "error"
    THEN _get_ups_address_xml(a)
    ELSE Return(Payload(_get_ups_address_xml(a).val, from_vals(a, p)))

to_ups_from_address(a, p, c) ==
    IF ~Truthy(p.phone)
    THEN Raise(ups_field_missing("Phone no.", "\"from address\""))
    ELSE IF c = 0
    THEN Raise(ups_field_missing("Company", "context"))
    ELSE IF _get_ups_address_xml(a).kind = "error"
    THEN _get_ups_address_xml(a)
    ELSE Return(Payload(_get_ups_address_xml(a).val, from_vals(a, p)))

\* the tax_identification_number of to_ups_to_address
to_tax(p) ==
    IF p.identifiers # <<>> THEN p.identifiers[1]
    ELSE IF p.has_tax_exemption_number /\ Truthy(p.tax_exemption_number)
    THEN p.tax_exemption_number
    ELSE <<>>

to_vals(a, p) ==
    ("CompanyName" :> attention(a, p)
        @@ "TaxIdentificationNumber" :> to_tax(p)
        @@ "AttentionName" :> attention(a, p))
    @@ (IF Truthy(p.phone) THEN "PhoneNumber" :> digits_only(p.phone) ELSE <<>>)
    @@ contact_vals(p)

to_ups_to_address(a, p) ==
    IF _get_ups_address_xml(a).kind = "error"
    THEN _get_ups_address_xml(a)
    ELSE Return(Payload(_get_ups_address_xml(a).val, to_vals(a, p)))

\* carrier.ups_shipper_no of the carrier to_ups_shipper is given
ShipperNumber == <<"1", "2">>

shipper_vals(a, p) ==
    ("CompanyName" :> CompanyParty.name
        @@ "TaxIdentificationNumber" :> company_tax(CompanyParty)
        @@ "Name" :> attention(a, p)
        @@ "AttentionName" :> attention(a, p)
        @@ "PhoneNumber" :> digits_only(p.phone)
        @@ "ShipperNumber" :> ShipperNumber)
    @@ contact_vals(p)

to_ups_shipper_validation_first(a, p, c) ==
    IF _get_ups_address_xml(a).kind = "error"
    THEN _get_ups_address_xml(a)
    ELSE IF ~Truthy(p.phone)
    THEN Raise(ups_field_missing("Phone no.", "\"Shipper Address\""))
    ELSE IF c = 0
    THEN Raise(ups_field_missing("Company", "context"))
    ELSE Return(Payload(_get_ups_address_xml(a).val, shipper_vals(a, p)))

to_ups_shipper(a, p, c) ==
    IF ~Truthy(p.phone)
    THEN Raise(ups_field_missing("Phone no.", "\"Shipper Address\""))
    ELSE IF c = 0
    THEN Raise(ups_field_missing("Company", "context"))
    ELSE IF _get_ups_address_xml(a).kind = "error"
    THEN _get_ups_address_xml(a)
    ELSE Return(Payload(_get_ups_address_xml(a).val, shipper_vals(a, p)))

----------------------------------------------------------------------------
(* to_worldship_address *)

\* the vals dict of to_worldship_address
worldship_vals(a, p) ==
    "CompanyOrName" :> CompanyParty.name
    @@ "Attention" :> attention(a, p)
    @@ "Address1" :> OrEmpty(a.street)
    @@ "Address2" :> OrEmpty(a.streetbis)
    @@ "CountryTerritory" :> (IF Set(a.country) THEN a.country.code ELSE None)
    @@ "PostalCode" :> OrEmpty(a.zip)
    @@ "CityOrTown" :> OrEmpty(a.city)
    @@ "StateProvinceCounty" :>
        (IF Set(a.subdivision) THEN SliceFrom(a.subdivision.code, 3) ELSE None)
    @@ "Telephone" :> digits_only(p.phone)

\* re.sub on None raises TypeError
to_worldship_address(a, p, c) ==
    IF c = 0
    THEN Raise(ups_field_missing("Company", "context"))
    ELSE IF p.phone = None
    THEN [kind |-> "crash", val |-> <<"TypeError">>]
    ELSE Return(worldship_vals(a, p))

\* WorldShip.ship_to_type(**values), CompanyOrName replaced
to_worldship_to_address(a, p, c) ==
    IF to_worldship_address(a, p, c).kind # "ok"
    THEN to_worldship_address(a, p, c)
    ELSE Return([to_worldship_address(a, p, c).val
                    EXCEPT !["CompanyOrName"] = attention(a, p)])

\* WorldShip.ship_from_type(**values)
to_worldship_from_address(a, p, c) == to_worldship_address(a, p, c)

----------------------------------------------------------------------------
(* The mapping operations as actions *)

validate_idle ==
    /\ carrier = [id |-> 0]
    /\ transport = [raises |-> FALSE, message |-> <<>>,
                    response |-> [valid |-> FALSE, suggestions |-> <<>>]]
    /\ pc = "idle"
    /\ response = [valid |-> FALSE, suggestions |-> <<>>]
    /\ request = NoResult
    /\ i = 0
    /\ matches = <<>>
    /\ calls = 0
    /\ lookups = 0

StreetLens == {1} \cup (StreetLimit..MaxStreetLen)
CityLens == {1} \cup (CityLimit..MaxCityLen)

Streets == {None} \cup {Text(n) : n \in StreetLens}
Cities == {None} \cup {Text(n) : n \in CityLens}
Zip == <<"7", "8", "7", "0", "1">>

MapAddresses ==
    [name : {None, <<"n">>},
     street : Streets,
     streetbis : {None, Text(MaxStreetLen)},
     city : Cities,
     zip : {None, Zip},
     country : {NoCountry, US, CA, PR, FR},
     subdivision : {NoSubdivision, US_TX, CA_ON}]

Parties ==
    [name : {<<"p">>},
     phone : {None, <<"+", "1", " ", "5">>},
     fax : {None, <<"2">>},
     email : {None, <<"e", "@">>},
     identifiers : {<<>>, << <<"4">> >>},
     has_tax_exemption_number : {TRUE},
     tax_exemption_number : {<<"x">>}]

InitMap ==
    /\ addr \in MapAddresses
    /\ party \in Parties
    /\ company \in {0, 1}
    /\ op = "none"
    /\ result = NoResult
    /\ validate_idle

inputs == <<addr, party, company, carrier, transport>>
validate_vars == <<pc, response, request, i, matches, calls, lookups>>

GetUpsAddressXml ==
    /\ op' = "_get_ups_address_xml"
    /\ result' = _get_ups_address_xml(addr)
    /\ UNCHANGED <<inputs, validate_vars>>

ToUpsFromAddress ==
    /\ op' = "to_ups_from_address"
    /\ result' = to_ups_from_address(addr, party, company)
    /\ UNCHANGED <<inputs, validate_vars>>

ToUpsToAddress ==
    /\ op' = "to_ups_to_address"
    /\ result' = to_ups_to_address(addr, party)
    /\ UNCHANGED <<inputs, validate_vars>>

ToUpsShipper ==
    /\ op' = "to_ups_shipper"
    /\ result' = to_ups_shipper(addr, party, company)
    /\ UNCHANGED <<inputs, validate_vars>>

ToWorldshipAddress ==
    /\ op' = "to_worldship_address"
    /\ result' = to_worldship_address(addr, party, company)
    /\ UNCHANGED <<inputs, validate_vars>>

ToWorldshipToAddress ==
    /\ op' = "to_worldship_to_address"
    /\ result' = to_worldship_to_address(addr, party, company)
    /\ UNCHANGED <<inputs, validate_vars>>

ToWorldshipFromAddress ==
    /\ op' = "to_worldship_from_address"
    /\ result' = to_worldship_from_address(addr, party, company)
    /\ UNCHANGED <<inputs, validate_vars>>

NextMap ==
    \/ GetUpsAddressXml
    \/ ToUpsFromAddress
    \/ ToUpsToAddress
    \/ ToUpsShipper
    \/ ToWorldshipAddress
    \/ ToWorldshipToAddress
    \/ ToWorldshipFromAddress

SpecMap == InitMap /\ [][NextMap]_vars

----------------------------------------------------------------------------
(* _ups_address_validate *)

Min(S) == CHOOSE x \in S : \A y \in S : x <= y

\* code.split('-')[1]
split_dash_1(code) ==
    LET dashes == {k \in 1..Len(code) : code[k] = "-"}
        first == Min(dashes)
        later == {k \in dashes : k > first}
        last == IF later = {} THEN Len(code) ELSE Min(later) - 1
    IN  SubSeq(code, first + 1, last)

\* the property fulfil_shipping_obj
fulfil_shipping_obj(a) ==
    [name |-> a.name,
     street1 |-> a.street,
     city |-> a.city,
     zip |-> a.zip,
     state |-> IF Set(a.subdivision) THEN split_dash_1(a.subdivision.code) ELSE None,
     country |-> IF Set(a.country) THEN a.country.code ELSE None]

\* Subdivision.search([('code', '=', '%s-%s' % (country_code, state))])
search(country_code, state) ==
    {s \in Subdivisions : s.code = country_code \o <<"-">> \o state}

\* the test that makes the loop return True
same_exact_case(a, suggestion, subdivision) ==
    a.city = suggestion.city /\ a.subdivision = subdivision

same(a, suggestion, subdivision) ==
    upper(a.city) = upper(suggestion.city) /\ a.subdivision = subdivision

\* Address(city=..., subdivision=..., **base_address)
candidate(a, suggestion, subdivision) ==
    [name |-> a.name,
     street |-> a.street,
     streetbis |-> a.streetbis,
     country |-> a.country,
     zip |-> a.zip,
     city |-> suggestion.city,
     subdivision |-> subdivision]

append_unique(ms, m) ==
    IF \E k \in 1..Len(ms) : ms[k] = m THEN ms ELSE Append(ms, m)

\* matches.append(...)
append(ms, m) == Append(ms, m)

Exact == [kind |-> "ok", val |-> <<"True">>]
Candidates(ms) == [kind |-> "ok", val |-> <<"matches", ms>>]

\* config.default_validation_carrier is looked up; without one the method raises
GetCarrier ==
    /\ pc = "start"
    /\ IF ~Set(carrier)
       THEN /\ result' = Raise(<<"Validation Carrier is not selected in party configuration.">>)
            /\ pc' = "done"
       ELSE /\ result' = result
            /\ pc' = "validate"
    /\ UNCHANGED <<inputs, op, response, request, i, matches, calls, lookups>>

ValidateRetrying ==
    /\ pc = "validate"
    /\ request' = fulfil_shipping_obj(addr)
    /\ calls' = calls + 1
    /\ IF transport.raises
       THEN /\ result' = Raise(<<"Error while validating address: %s", transport.message>>)
            /\ pc' = IF calls = 0 THEN "validate" ELSE "done"
            /\ response' = response
       ELSE /\ result' = result
            /\ pc' = "response"
            /\ response' = transport.response
    /\ UNCHANGED <<inputs, op, i, matches, lookups>>

\* response, = client.validate(self.fulfil_shipping_obj), ShippingException caught
Validate ==
    /\ pc = "validate"
    /\ request' = fulfil_shipping_obj(addr)
    /\ calls' = calls + 1
    /\ IF transport.raises
       THEN /\ result' = Raise(<<"Error while validating address: %s", transport.message>>)
            /\ pc' = "done"
            /\ response' = response
       ELSE /\ result' = result
            /\ pc' = "response"
            /\ response' = transport.response
    /\ UNCHANGED <<inputs, op, i, matches, lookups>>

\* if response['valid'] and not response['suggestions']: return True
PerfectMatch ==
    /\ pc = "response"
    /\ IF response.valid /\ response.suggestions = <<>>
       THEN /\ result' = Exact
            /\ pc' = "done"
            /\ UNCHANGED <<i, matches>>
       ELSE /\ result' = result
            /\ pc' = "loop"
            /\ i' = 1
            /\ matches' = <<>>
    /\ UNCHANGED <<inputs, op, response, request, calls, lookups>>

\* one pass of: for address in response['suggestions']
Suggestion ==
    /\ pc = "loop"
    /\ i <= Len(response.suggestions)
    /\ lookups' = lookups + 1
    /\ LET address == response.suggestions[i]
           found == search(addr.country.code, address.state)
       IN  IF Cardinality(found) # 1
           THEN /\ i' = i + 1
                /\ UNCHANGED <<matches, result, pc>>
           ELSE LET subdivision == CHOOSE s \in found : TRUE
                IN  IF same(addr, address, subdivision)
                    THEN /\ result' = Exact
                         /\ pc' = "done"
                         /\ UNCHANGED <<i, matches>>
                    ELSE /\ matches' = append(matches, candidate(addr, address, subdivision))
                         /\ i' = i + 1
                         /\ UNCHANGED <<result, pc>>
    /\ UNCHANGED <<inputs, op, response, request, calls>>

\* return matches
ReturnMatches ==
    /\ pc = "loop"
    /\ i > Len(response.suggestions)
    /\ result' = Candidates(matches)
    /\ pc' = "done"
    /\ UNCHANGED <<inputs, op, response, request, i, matches, calls, lookups>>

RECURSIVE SeqsUpTo(_, _)
\* the sequences over S of length at most n
SeqsUpTo(S, n) ==
    IF n = 0 THEN {<<>>}
    ELSE LET shorter == SeqsUpTo(S, n - 1)
         IN  shorter \cup {Append(q, x) : q \in shorter, x \in S}

SuggestionCities == {<<"A", "u">>, <<"H", "o">>}
SuggestionStates == {<<"T", "X">>, <<"Z", "Z">>, <<"D", "D">>}
Suggestions == [city : SuggestionCities, state : SuggestionStates]

Responses == [valid : BOOLEAN, suggestions : SeqsUpTo(Suggestions, MaxSuggestions)]

Transports ==
    {[raises |-> TRUE, message |-> <<"t", "i", "m", "e">>,
      response |-> [valid |-> FALSE, suggestions |-> <<>>]]}
    \cup {[raises |-> FALSE, message |-> <<>>, response |-> r] : r \in Responses}

\* the addresses validation is asked about: city and country are set, as the
\* loop reads self.country.code and self.city.upper() unguarded
ValidateAddresses ==
    [name : {<<"n">>},
     street : {Text(1)},
     streetbis : {None},
     city : {<<"a", "u">>, <<"h", "o">>},
     zip : {None, Zip},
     country : {US, CA},
     subdivision : {NoSubdivision, US_TX, US_DD}]

UPS == [id |-> 1]

InitValidate ==
    /\ addr \in ValidateAddresses
    /\ party = [name |-> <<"p">>, phone |-> None, fax |-> None, email |-> None,
                identifiers |-> <<>>, has_tax_exemption_number |-> TRUE,
                tax_exemption_number |-> <<"x">>]
    /\ company = 0
    /\ carrier \in {[id |-> 0], UPS}
    /\ transport \in Transports
    /\ op = "_ups_address_validate"
    /\ pc = "start"
    /\ response = [valid |-> FALSE, suggestions |-> <<>>]
    /\ request = NoResult
    /\ i = 0
    /\ matches = <<>>
    /\ calls = 0
    /\ lookups = 0
    /\ result = NoResult

NextValidate ==
    \/ GetCarrier
    \/ Validate
    \/ PerfectMatch
    \/ Suggestion
    \/ ReturnMatches

SpecValidate == InitValidate /\ [][NextValidate]_vars

----------------------------------------------------------------------------
(* Properties of _get_ups_address_xml *)

RequiredMessage == <<"Street, City and Country are required.">>
StateMessage(a) == <<"State is required for %s", a.country.code>>
ZipMessage(a) == <<"ZIP is required for %s", a.country.code>>

AddressXmlRan == op = "_get_ups_address_xml"

HasStreetCityCountry == Truthy(addr.street) /\ Truthy(addr.city) /\ Set(addr.country)

\* C1: an address whose street, city or country is empty makes
\* _get_ups_address_xml fail with "Street, City and Country are required.",
\* whatever its subdivision and postal code are; it never gets the state or
\* the ZIP error.
C1_RequiredFirst ==
    (AddressXmlRan /\ ~HasStreetCityCountry) => result = Raise(RequiredMessage)

C1_Witness ==
    /\ AddressXmlRan
    /\ ~Truthy(addr.city)
    /\ addr.country = US
    /\ ~Set(addr.subdivision)
    /\ ~Truthy(addr.zip)
    /\ result = Raise(RequiredMessage)

\* C2: for a US or CA address with street, city and country, an absent
\* subdivision always gives "State is required", also when the ZIP is absent
\* too, and "ZIP is required" is given exactly when the subdivision is
\* present and the postal code absent.
C2_StateBeforeZip ==
    (AddressXmlRan /\ HasStreetCityCountry /\ addr.country \in {US, CA}) =>
        /\ ~Set(addr.subdivision) => result = Raise(StateMessage(addr))
        /\ result = Raise(ZipMessage(addr))
               <=> (Set(addr.subdivision) /\ ~Truthy(addr.zip))

C2_Witness ==
    /\ AddressXmlRan
    /\ HasStreetCityCountry
    /\ addr.country = CA
    /\ ~Set(addr.subdivision)
    /\ ~Truthy(addr.zip)
    /\ result = Raise(StateMessage(addr))

\* C3: with street, city and country present, a country outside US, CA, PR
\* passes validation with postal code and subdivision absent, and for PR an
\* absent subdivision alone never fails: PR fails only for an absent ZIP.
C3_OnlyEnforcingCountries ==
    (AddressXmlRan /\ HasStreetCityCountry) =>
        /\ addr.country \notin {US, CA, PR} => result.kind = "ok"
        /\ addr.country = PR =>
               IF Truthy(addr.zip) THEN result.kind = "ok"
               ELSE result = Raise(ZipMessage(addr))

C3_Witness ==
    /\ AddressXmlRan
    /\ HasStreetCityCountry
    /\ addr.country = FR
    /\ ~Set(addr.subdivision)
    /\ ~Truthy(addr.zip)
    /\ result.kind = "ok"

----------------------------------------------------------------------------
(* Properties of the payloads *)

RestRoleOps == {"to_ups_from_address", "to_ups_to_address", "to_ups_shipper"}
WorldshipOps == {"to_worldship_address", "to_worldship_to_address",
                 "to_worldship_from_address"}

RestProduced == op \in RestRoleOps \cup {"_get_ups_address_xml"} /\ result.kind = "ok"
WorldshipProduced == op \in WorldshipOps /\ result.kind = "ok"

\* the address part of a REST-style payload
RestAddress == IF op = "_get_ups_address_xml" THEN result.val ELSE result.val.Address

\* the first n characters of s
FirstChars(s, n) == [k \in 1..(IF Len(s) < n THEN Len(s) ELSE n) |-> s[k]]

RestLengths ==
    RestProduced =>
        /\ RestAddress["AddressLine1"] = FirstChars(addr.street, 35)
        /\ Len(RestAddress["AddressLine1"]) <= 35
        /\ RestAddress["City"] = FirstChars(addr.city, 30)
        /\ Len(RestAddress["City"]) <= 30

\* C4 as stated: in both formats the street-line-1 field is the first 35
\* characters of the street and the city field the first 30 of the city.
C4_Original ==
    /\ RestLengths
    /\ WorldshipProduced =>
           /\ result.val["Address1"] = FirstChars(OrEmpty(addr.street), 35)
           /\ result.val["CityOrTown"] = FirstChars(OrEmpty(addr.city), 30)

\* C4 amended: the REST-style payload holds the first 35 characters of the
\* street and the first 30 of the city; the desktop-XML payload holds the
\* whole street and the whole city, however long.
C4_Amended ==
    /\ RestLengths
    /\ WorldshipProduced =>
           /\ result.val["Address1"] = OrEmpty(addr.street)
           /\ result.val["CityOrTown"] = OrEmpty(addr.city)

C4_Witness ==
    /\ op = "to_ups_to_address"
    /\ result.kind = "ok"
    /\ Len(addr.street) > 35
    /\ Len(addr.city) > 30
    /\ Len(result.val.Address["AddressLine1"]) = 35
    /\ Len(result.val.Address["City"]) = 30

\* key is in the payload exactly when present holds, and never with an empty value
KeyIff(payload, key, present) ==
    /\ key \in DOMAIN payload <=> present
    /\ key \in DOMAIN payload => payload[key] \notin {<<>>, None}

RestPresence ==
    RestProduced =>
        /\ KeyIff(RestAddress, "AddressLine2", Truthy(addr.streetbis))
        /\ KeyIff(RestAddress, "StateProvinceCode", Set(addr.subdivision))
        /\ KeyIff(RestAddress, "PostalCode", Truthy(addr.zip))
        /\ op \in RestRoleOps =>
               /\ KeyIff(result.val.vals, "FaxNumber", Truthy(party.fax))
               /\ KeyIff(result.val.vals, "EMailAddress", Truthy(party.email))

\* C5 as stated: a REST-style optional field is a key exactly when its source
\* is non-empty; the desktop-XML payload always has every field, the fax
\* included, and an absent street line 2, postal code, city, subdivision or
\* fax is the empty string.
C5_Original ==
    /\ RestPresence
    /\ WorldshipProduced =>
           /\ result.val["Address2"] = OrEmpty(addr.streetbis)
           /\ result.val["PostalCode"] = OrEmpty(addr.zip)
           /\ result.val["CityOrTown"] = OrEmpty(addr.city)
           /\ ~Set(addr.subdivision) => result.val["StateProvinceCounty"] = <<>>
           /\ "FaxNumber" \in DOMAIN result.val

WorldshipKeys ==
    {"CompanyOrName", "Attention", "Address1", "Address2", "CountryTerritory",
     "PostalCode", "CityOrTown", "StateProvinceCounty", "Telephone"}

\* C5 amended: a REST-style optional field is a key exactly when its source
\* is non-empty; the desktop-XML payload always has the same nine keys, none
\* of them for the fax; an absent street, street line 2, postal code or city
\* is the empty string, an absent subdivision or country is None.
C5_Amended ==
    /\ RestPresence
    /\ WorldshipProduced =>
           /\ DOMAIN result.val = WorldshipKeys
           /\ result.val["Address1"] = OrEmpty(addr.street)
           /\ result.val["Address2"] = OrEmpty(addr.streetbis)
           /\ result.val["PostalCode"] = OrEmpty(addr.zip)
           /\ result.val["CityOrTown"] = OrEmpty(addr.city)
           /\ ~Set(addr.subdivision) => result.val["StateProvinceCounty"] = None
           /\ ~Set(addr.country) => result.val["CountryTerritory"] = None

C5_Witness ==
    /\ op = "to_ups_shipper"
    /\ result.kind = "ok"
    /\ ~Truthy(party.fax)
    /\ Truthy(party.email)
    /\ ~Truthy(addr.zip)
    /\ "FaxNumber" \notin DOMAIN result.val.vals
    /\ "EMailAddress" \in DOMAIN result.val.vals
    /\ "PostalCode" \notin DOMAIN result.val.Address

----------------------------------------------------------------------------
(* Properties of the three roles *)

PhoneMissing(role) == Raise(<<"%s is missing in %s.", "Phone no.", role>>)
CompanyMissing == Raise(<<"%s is missing in %s.", "Company", "context">>)

RoleName ==
    IF op = "to_ups_from_address" THEN "\"from address\"" ELSE "\"Shipper Address\""

\* C6: ship_from and shipper fail with the phone error when the party has no
\* phone, with the company error when the phone is there and the context has
\* no company, and produce a payload only with both; ship_to needs neither:
\* it never gives those errors, and without a phone a valid address maps to
\* a payload with no PhoneNumber key.
C6_PhoneAndCompany ==
    /\ op \in {"to_ups_from_address", "to_ups_shipper"} =>
           /\ ~Truthy(party.phone) => result = PhoneMissing(RoleName)
           /\ (Truthy(party.phone) /\ company = 0) => result = CompanyMissing
           /\ result.kind = "ok" => (Truthy(party.phone) /\ company # 0)
    /\ op = "to_ups_to_address" =>
           /\ result.kind = "error" => result.val[1] # "%s is missing in %s."
           /\ (~Truthy(party.phone) /\ required(addr) = NoError) =>
                  /\ result.kind = "ok"
                  /\ "PhoneNumber" \notin DOMAIN result.val.vals

C6_Witness ==
    /\ op = "to_ups_from_address"
    /\ Truthy(party.phone)
    /\ company = 0
    /\ required(addr) = NoError
    /\ result = CompanyMissing

\* C7 as stated: in the three roles an address that fails required-field
\* validation makes the operation fail with the validator's error.
C7_Original ==
    (op \in RestRoleOps /\ required(addr) # NoError) => result = Raise(required(addr))

\* C7 amended: in the three roles an address that fails required-field
\* validation never yields a payload; ship_to fails with the validator's
\* error; ship_from and shipper check the phone and the company first, so
\* they fail with the phone error when the phone is missing, else with the
\* company error when the company is missing, else with the validator's error.
C7_Amended ==
    (op \in RestRoleOps /\ required(addr) # NoError) =>
        /\ result.kind = "error"
        /\ op = "to_ups_to_address" => result = Raise(required(addr))
        /\ op # "to_ups_to_address" =>
               result = IF ~Truthy(party.phone) THEN PhoneMissing(RoleName)
                        ELSE IF company = 0 THEN CompanyMissing
                        ELSE Raise(required(addr))

C7_Witness ==
    /\ op = "to_ups_shipper"
    /\ required(addr) # NoError
    /\ ~Truthy(party.phone)
    /\ result = PhoneMissing("\"Shipper Address\"")

----------------------------------------------------------------------------
(* Properties of _ups_address_validate *)

\* the call got a response from the carrier and has returned
Reconciled == pc = "done" /\ Set(carrier) /\ ~transport.raises

Suggested == transport.response.suggestions

\* the subdivision records the suggestion's state code stands for
Resolved(suggestion) ==
    {s \in Subdivisions : s.code = addr.country.code \o <<"-">> \o suggestion.state}

Resolvable(suggestion) == Cardinality(Resolved(suggestion)) = 1

\* the suggestion is what the address already holds
Confirms(suggestion) ==
    /\ Resolved(suggestion) = {addr.subdivision}
    /\ upper(suggestion.city) = upper(addr.city)

Confirming == {k \in 1..Len(Suggested) : Confirms(Suggested[k])}

Perfect == transport.response.valid /\ Suggested = <<>>

\* C8: reconciliation returns True exactly when the response is valid with
\* no suggestions, or some suggestion, at any position, resolves to exactly
\* one subdivision, which is the original's, with the original's city
\* ignoring case; then the loop stops at the first such suggestion, whatever
\* it had accumulated, and looks up no later one.
C8_ExactIff ==
    Reconciled =>
        /\ result = Exact <=> (Perfect \/ Confirming # {})
        /\ Confirming # {} =>
               /\ lookups = Min(Confirming)
               /\ Len(matches) =
                      Cardinality({k \in 1..(Min(Confirming) - 1) : Resolvable(Suggested[k])})

C8_Witness ==
    /\ Reconciled
    /\ result = Exact
    /\ ~transport.response.valid
    /\ addr.city # Suggested[lookups].city
    /\ matches # <<>>
    /\ lookups < Len(Suggested)

\* the candidate a resolvable suggestion stands for
Expected(suggestion) ==
    [name |-> addr.name,
     street |-> addr.street,
     streetbis |-> addr.streetbis,
     country |-> addr.country,
     zip |-> addr.zip,
     city |-> suggestion.city,
     subdivision |-> CHOOSE s \in Resolved(suggestion) : TRUE]

ExpectedCandidates ==
    LET kept == SelectSeq(Suggested, Resolvable)
    IN  [k \in 1..Len(kept) |-> Expected(kept[k])]

\* C9: when the response is not the perfect match and no suggestion confirms
\* the original, reconciliation returns the list of one candidate per
\* suggestion that resolves to exactly one subdivision, in the response's
\* order, duplicates kept, each with the original's name, street, street
\* line 2, country and postal code and the suggestion's city and resolved
\* subdivision; suggestions resolving to none or several are skipped without
\* error, and the list, empty or not, is not the Exact verdict.
C9_Candidates ==
    (Reconciled /\ ~Perfect /\ Confirming = {}) =>
        /\ result = Candidates(ExpectedCandidates)
        /\ result # Exact
        /\ lookups = Len(Suggested)

C9_Witness ==
    /\ Reconciled
    /\ result.val[1] = "matches"
    /\ Len(result.val[2]) = 2
    /\ result.val[2][1] = result.val[2][2]
    /\ Len(Suggested) = 3
    /\ ~Resolvable(Suggested[2])

\* C10: client.validate is called at most once in a call, and once before
\* any verdict; when it raises, the call ends with the one error carrying the
\* carrier's message, after one transport call, no subdivision lookup and no
\* verdict; with no validation carrier configured the call fails before the
\* transport is called.
C10_SingleTransportCall ==
    /\ calls <= 1
    /\ pc \in {"response", "loop"} => calls = 1
    /\ (pc = "done" /\ Set(carrier)) => calls = 1
    /\ (pc = "done" /\ Set(carrier) /\ transport.raises) =>
           /\ result = Raise(<<"Error while validating address: %s", transport.message>>)
           /\ lookups = 0
    /\ ~Set(carrier) =>
           /\ calls = 0
           /\ lookups = 0
           /\ pc \in {"start", "done"}
           /\ pc = "done" => result.kind = "error"

C10_Witness ==
    /\ pc = "done"
    /\ Set(carrier)
    /\ transport.raises
    /\ calls = 1
    /\ result.kind = "error"

====
